---- MODULE Spec2Model ----
(***************************************************************************)
(* Compile-time behaviour of the CAsyncDNSResolver header shim.            *)
(*                                                                         *)
(* The two headers are modelled as the sequences of directives they        *)
(* contain, and a translation unit as a C preprocessor / file-scope        *)
(* declaration processor that walks them one directive at a time.  The     *)
(* target platform (which system headers exist and which type names they   *)
(* declare) and the feature macros already defined when the shim is first  *)
(* included are the inputs.                                                *)
(***************************************************************************)
EXTENDS Naturals, Sequences, FiniteSets, TLC

VARIABLES
    platform,   \* the target platform the translation unit is compiled for
    predef,     \* CARES_HAVE_* macros defined ahead of the first inclusion
    stack,      \* include stack: frames [file, pc], innermost last
    macros,     \* defined object-like macros: name -> replacement text
    declared,   \* type names declared so far by system headers / typedefs
    included,   \* <<file, header>>: system headers successfully included
    aliases,    \* <<alias, type>>: typedefs made by the shim
    defCount,   \* alias -> number of typedef declarations processed for it
    objects,    \* names of variables defined (storage allocated) by the shim
    errors,     \* <<kind, what>>: compile errors raised so far
    entries,    \* file -> number of times the file has been entered
    completed,  \* files whose end has been reached at least once
    tuCount,    \* number of #include lines of the translation unit so far
    status      \* "running" | "done" | "fatal"

vars == <<platform, predef, stack, macros, declared, included, aliases,
          defCount, objects, errors, entries, completed, tuCount, status>>

\* The part of the state a header can contribute to.
effect == <<macros, declared, included, aliases, defCount, objects, errors>>

\* Number of #include lines of shim headers the translation unit may hold.
MaxIncludes == 3

-----------------------------------------------------------------------------
(* The source text, one record per directive or declaration line.          *)

L(ln, k, a, b) == [ln |-> ln, k |-> k, a |-> a, b |-> b]

\* CAsyncDNSResolver.h with the resolver's header included ahead of ares_build.h.
CAsyncDNSResolverH_AresFirst ==
    << L(15, "ifndef", "C_ASYNC_RESOLVER_H", ""),
       L(16, "define", "C_ASYNC_RESOLVER_H", ""),
       L(18, "include_sys", "arpa/inet.h", ""),
       L(19, "include_sys", "netdb.h", ""),
       L(23, "include_local", "../c-ares/include/ares.h", ""),
       L(21, "include_local", "ares_build.h", ""),
       L(22, "include_local", "ares_config.h", ""),
       L(25, "endif", "", "") >>

CAsyncDNSResolverH ==
    << L(15, "ifndef", "C_ASYNC_RESOLVER_H", ""),
       L(16, "define", "C_ASYNC_RESOLVER_H", ""),
       L(18, "include_sys", "arpa/inet.h", ""),
       L(19, "include_sys", "netdb.h", ""),
       L(21, "include_local", "ares_build.h", ""),
       L(22, "include_local", "ares_config.h", ""),
       L(23, "include_local", "../c-ares/include/ares.h", ""),
       L(25, "endif", "", "") >>

\* ares_build.h with line 28 defining CARES_HAVE_WINSOCK2_H instead of leaving it undefined.
AresBuildH_Winsock2 ==
    << L(15, "ifndef", "__CARES_BUILD_H", ""),
       L(16, "define", "__CARES_BUILD_H", ""),
       L(18, "define", "CARES_TYPEOF_ARES_SOCKLEN_T", "socklen_t"),
       L(19, "define", "CARES_TYPEOF_ARES_SSIZE_T", "ssize_t"),
       L(24, "define", "CARES_HAVE_SYS_TYPES_H", ""),
       L(25, "define", "CARES_HAVE_SYS_SOCKET_H", ""),
       L(28, "define", "CARES_HAVE_WINSOCK2_H", ""),
       L(31, "ifdef", "CARES_HAVE_SYS_TYPES_H", ""),
       L(32, "include_sys", "sys/types.h", ""),
       L(33, "endif", "", ""),
       L(35, "ifdef", "CARES_HAVE_SYS_SOCKET_H", ""),
       L(36, "include_sys", "sys/socket.h", ""),
       L(37, "endif", "", ""),
       L(39, "ifdef", "CARES_HAVE_WINSOCK2_H", ""),
       L(40, "include_sys", "winsock2.h", ""),
       L(41, "endif", "", ""),
       L(43, "ifdef", "CARES_HAVE_WS2TCPIP_H", ""),
       L(44, "include_sys", "ws2tcpip.h", ""),
       L(45, "endif", "", ""),
       L(47, "ifdef", "CARES_HAVE_WINDOWS_H", ""),
       L(48, "include_sys", "windows.h", ""),
       L(49, "endif", "", ""),
       L(52, "typedef", "CARES_TYPEOF_ARES_SOCKLEN_T", "ares_socklen_t"),
       L(53, "typedef", "CARES_TYPEOF_ARES_SSIZE_T", "ares_ssize_t"),
       L(55, "endif", "", "") >>

\* ares_build.h with the replacement texts of the two CARES_TYPEOF_ macros exchanged.
AresBuildH_SwappedTypes ==
    << L(15, "ifndef", "__CARES_BUILD_H", ""),
       L(16, "define", "__CARES_BUILD_H", ""),
       L(18, "define", "CARES_TYPEOF_ARES_SOCKLEN_T", "ssize_t"),
       L(19, "define", "CARES_TYPEOF_ARES_SSIZE_T", "socklen_t"),
       L(24, "define", "CARES_HAVE_SYS_TYPES_H", ""),
       L(25, "define", "CARES_HAVE_SYS_SOCKET_H", ""),
       L(31, "ifdef", "CARES_HAVE_SYS_TYPES_H", ""),
       L(32, "include_sys", "sys/types.h", ""),
       L(33, "endif", "", ""),
       L(35, "ifdef", "CARES_HAVE_SYS_SOCKET_H", ""),
       L(36, "include_sys", "sys/socket.h", ""),
       L(37, "endif", "", ""),
       L(39, "ifdef", "CARES_HAVE_WINSOCK2_H", ""),
       L(40, "include_sys", "winsock2.h", ""),
       L(41, "endif", "", ""),
       L(43, "ifdef", "CARES_HAVE_WS2TCPIP_H", ""),
       L(44, "include_sys", "ws2tcpip.h", ""),
       L(45, "endif", "", ""),
       L(47, "ifdef", "CARES_HAVE_WINDOWS_H", ""),
       L(48, "include_sys", "windows.h", ""),
       L(49, "endif", "", ""),
       L(52, "typedef", "CARES_TYPEOF_ARES_SOCKLEN_T", "ares_socklen_t"),
       L(53, "typedef", "CARES_TYPEOF_ARES_SSIZE_T", "ares_ssize_t"),
       L(55, "endif", "", "") >>

\* ares_build.h with the two typedef lines placed ahead of the #include blocks.
AresBuildH_TypedefsFirst ==
    << L(15, "ifndef", "__CARES_BUILD_H", ""),
       L(16, "define", "__CARES_BUILD_H", ""),
       L(18, "define", "CARES_TYPEOF_ARES_SOCKLEN_T", "socklen_t"),
       L(19, "define", "CARES_TYPEOF_ARES_SSIZE_T", "ssize_t"),
       L(24, "define", "CARES_HAVE_SYS_TYPES_H", ""),
       L(25, "define", "CARES_HAVE_SYS_SOCKET_H", ""),
       L(52, "typedef", "CARES_TYPEOF_ARES_SOCKLEN_T", "ares_socklen_t"),
       L(53, "typedef", "CARES_TYPEOF_ARES_SSIZE_T", "ares_ssize_t"),
       L(31, "ifdef", "CARES_HAVE_SYS_TYPES_H", ""),
       L(32, "include_sys", "sys/types.h", ""),
       L(33, "endif", "", ""),
       L(35, "ifdef", "CARES_HAVE_SYS_SOCKET_H", ""),
       L(36, "include_sys", "sys/socket.h", ""),
       L(37, "endif", "", ""),
       L(39, "ifdef", "CARES_HAVE_WINSOCK2_H", ""),
       L(40, "include_sys", "winsock2.h", ""),
       L(41, "endif", "", ""),
       L(43, "ifdef", "CARES_HAVE_WS2TCPIP_H", ""),
       L(44, "include_sys", "ws2tcpip.h", ""),
       L(45, "endif", "", ""),
       L(47, "ifdef", "CARES_HAVE_WINDOWS_H", ""),
       L(48, "include_sys", "windows.h", ""),
       L(49, "endif", "", ""),
       L(55, "endif", "", "") >>

\* ares_build.h with line 52 lacking the typedef keyword: a variable definition.
AresBuildH_NoTypedefKeyword ==
    << L(15, "ifndef", "__CARES_BUILD_H", ""),
       L(16, "define", "__CARES_BUILD_H", ""),
       L(18, "define", "CARES_TYPEOF_ARES_SOCKLEN_T", "socklen_t"),
       L(19, "define", "CARES_TYPEOF_ARES_SSIZE_T", "ssize_t"),
       L(24, "define", "CARES_HAVE_SYS_TYPES_H", ""),
       L(25, "define", "CARES_HAVE_SYS_SOCKET_H", ""),
       L(31, "ifdef", "CARES_HAVE_SYS_TYPES_H", ""),
       L(32, "include_sys", "sys/types.h", ""),
       L(33, "endif", "", ""),
       L(35, "ifdef", "CARES_HAVE_SYS_SOCKET_H", ""),
       L(36, "include_sys", "sys/socket.h", ""),
       L(37, "endif", "", ""),
       L(39, "ifdef", "CARES_HAVE_WINSOCK2_H", ""),
       L(40, "include_sys", "winsock2.h", ""),
       L(41, "endif", "", ""),
       L(43, "ifdef", "CARES_HAVE_WS2TCPIP_H", ""),
       L(44, "include_sys", "ws2tcpip.h", ""),
       L(45, "endif", "", ""),
       L(47, "ifdef", "CARES_HAVE_WINDOWS_H", ""),
       L(48, "include_sys", "windows.h", ""),
       L(49, "endif", "", ""),
       L(52, "object", "CARES_TYPEOF_ARES_SOCKLEN_T", "ares_socklen_t"),
       L(53, "typedef", "CARES_TYPEOF_ARES_SSIZE_T", "ares_ssize_t"),
       L(55, "endif", "", "") >>

\* ares_build.h with <sys/socket.h> guarded by the feature macro of <winsock2.h>.
AresBuildH_WrongGuard ==
    << L(15, "ifndef", "__CARES_BUILD_H", ""),
       L(16, "define", "__CARES_BUILD_H", ""),
       L(18, "define", "CARES_TYPEOF_ARES_SOCKLEN_T", "socklen_t"),
       L(19, "define", "CARES_TYPEOF_ARES_SSIZE_T", "ssize_t"),
       L(24, "define", "CARES_HAVE_SYS_TYPES_H", ""),
       L(25, "define", "CARES_HAVE_SYS_SOCKET_H", ""),
       L(31, "ifdef", "CARES_HAVE_SYS_TYPES_H", ""),
       L(32, "include_sys", "sys/types.h", ""),
       L(33, "endif", "", ""),
       L(35, "ifdef", "CARES_HAVE_WINSOCK2_H", ""),
       L(36, "include_sys", "sys/socket.h", ""),
       L(37, "endif", "", ""),
       L(39, "ifdef", "CARES_HAVE_WINSOCK2_H", ""),
       L(40, "include_sys", "winsock2.h", ""),
       L(41, "endif", "", ""),
       L(43, "ifdef", "CARES_HAVE_WS2TCPIP_H", ""),
       L(44, "include_sys", "ws2tcpip.h", ""),
       L(45, "endif", "", ""),
       L(47, "ifdef", "CARES_HAVE_WINDOWS_H", ""),
       L(48, "include_sys", "windows.h", ""),
       L(49, "endif", "", ""),
       L(52, "typedef", "CARES_TYPEOF_ARES_SOCKLEN_T", "ares_socklen_t"),
       L(53, "typedef", "CARES_TYPEOF_ARES_SSIZE_T", "ares_ssize_t"),
       L(55, "endif", "", "") >>

\* ares_build.h with <winsock2.h> included outside any #ifdef block.
AresBuildH_UnguardedWinsock2 ==
    << L(15, "ifndef", "__CARES_BUILD_H", ""),
       L(16, "define", "__CARES_BUILD_H", ""),
       L(18, "define", "CARES_TYPEOF_ARES_SOCKLEN_T", "socklen_t"),
       L(19, "define", "CARES_TYPEOF_ARES_SSIZE_T", "ssize_t"),
       L(24, "define", "CARES_HAVE_SYS_TYPES_H", ""),
       L(25, "define", "CARES_HAVE_SYS_SOCKET_H", ""),
       L(31, "ifdef", "CARES_HAVE_SYS_TYPES_H", ""),
       L(32, "include_sys", "sys/types.h", ""),
       L(33, "endif", "", ""),
       L(35, "ifdef", "CARES_HAVE_SYS_SOCKET_H", ""),
       L(36, "include_sys", "sys/socket.h", ""),
       L(37, "endif", "", ""),
       L(40, "include_sys", "winsock2.h", ""),
       L(43, "ifdef", "CARES_HAVE_WS2TCPIP_H", ""),
       L(44, "include_sys", "ws2tcpip.h", ""),
       L(45, "endif", "", ""),
       L(47, "ifdef", "CARES_HAVE_WINDOWS_H", ""),
       L(48, "include_sys", "windows.h", ""),
       L(49, "endif", "", ""),
       L(52, "typedef", "CARES_TYPEOF_ARES_SOCKLEN_T", "ares_socklen_t"),
       L(53, "typedef", "CARES_TYPEOF_ARES_SSIZE_T", "ares_ssize_t"),
       L(55, "endif", "", "") >>

\* ares_build.h with line 16, the #define of its include guard, missing.
AresBuildH_NoGuardDefine ==
    << L(15, "ifndef", "__CARES_BUILD_H", ""),
       L(18, "define", "CARES_TYPEOF_ARES_SOCKLEN_T", "socklen_t"),
       L(19, "define", "CARES_TYPEOF_ARES_SSIZE_T", "ssize_t"),
       L(24, "define", "CARES_HAVE_SYS_TYPES_H", ""),
       L(25, "define", "CARES_HAVE_SYS_SOCKET_H", ""),
       L(31, "ifdef", "CARES_HAVE_SYS_TYPES_H", ""),
       L(32, "include_sys", "sys/types.h", ""),
       L(33, "endif", "", ""),
       L(35, "ifdef", "CARES_HAVE_SYS_SOCKET_H", ""),
       L(36, "include_sys", "sys/socket.h", ""),
       L(37, "endif", "", ""),
       L(39, "ifdef", "CARES_HAVE_WINSOCK2_H", ""),
       L(40, "include_sys", "winsock2.h", ""),
       L(41, "endif", "", ""),
       L(43, "ifdef", "CARES_HAVE_WS2TCPIP_H", ""),
       L(44, "include_sys", "ws2tcpip.h", ""),
       L(45, "endif", "", ""),
       L(47, "ifdef", "CARES_HAVE_WINDOWS_H", ""),
       L(48, "include_sys", "windows.h", ""),
       L(49, "endif", "", ""),
       L(52, "typedef", "CARES_TYPEOF_ARES_SOCKLEN_T", "ares_socklen_t"),
       L(53, "typedef", "CARES_TYPEOF_ARES_SSIZE_T", "ares_ssize_t"),
       L(55, "endif", "", "") >>

AresBuildH ==
    << L(15, "ifndef", "__CARES_BUILD_H", ""),
       L(16, "define", "__CARES_BUILD_H", ""),
       L(18, "define", "CARES_TYPEOF_ARES_SOCKLEN_T", "socklen_t"),
       L(19, "define", "CARES_TYPEOF_ARES_SSIZE_T", "ssize_t"),
       L(24, "define", "CARES_HAVE_SYS_TYPES_H", ""),
       L(25, "define", "CARES_HAVE_SYS_SOCKET_H", ""),
       L(31, "ifdef", "CARES_HAVE_SYS_TYPES_H", ""),
       L(32, "include_sys", "sys/types.h", ""),
       L(33, "endif", "", ""),
       L(35, "ifdef", "CARES_HAVE_SYS_SOCKET_H", ""),
       L(36, "include_sys", "sys/socket.h", ""),
       L(37, "endif", "", ""),
       L(39, "ifdef", "CARES_HAVE_WINSOCK2_H", ""),
       L(40, "include_sys", "winsock2.h", ""),
       L(41, "endif", "", ""),
       L(43, "ifdef", "CARES_HAVE_WS2TCPIP_H", ""),
       L(44, "include_sys", "ws2tcpip.h", ""),
       L(45, "endif", "", ""),
       L(47, "ifdef", "CARES_HAVE_WINDOWS_H", ""),
       L(48, "include_sys", "windows.h", ""),
       L(49, "endif", "", ""),
       L(52, "typedef", "CARES_TYPEOF_ARES_SOCKLEN_T", "ares_socklen_t"),
       L(53, "typedef", "CARES_TYPEOF_ARES_SSIZE_T", "ares_ssize_t"),
       L(55, "endif", "", "") >>

\* ares_config.h and the vendored ares.h are not part of the shim's two
\* headers: they are entered and left, and contribute nothing the model tracks.
AresConfigH == << >>

AresH == << >>

ShimHeaders == {"CAsyncDNSResolver.h", "ares_build.h"}

Files == ShimHeaders \cup {"ares_config.h", "../c-ares/include/ares.h"}

File(f) ==
    CASE f = "CAsyncDNSResolver.h" -> CAsyncDNSResolverH
      [] f = "ares_build.h" -> AresBuildH
      [] f = "ares_config.h" -> AresConfigH
      [] f = "../c-ares/include/ares.h" -> AresH

\* Feature macro -> the system header its #ifdef block includes.
FeatureHeader ==
    [m \in {"CARES_HAVE_SYS_TYPES_H", "CARES_HAVE_SYS_SOCKET_H",
            "CARES_HAVE_WINSOCK2_H", "CARES_HAVE_WS2TCPIP_H",
            "CARES_HAVE_WINDOWS_H"} |->
        CASE m = "CARES_HAVE_SYS_TYPES_H" -> "sys/types.h"
          [] m = "CARES_HAVE_SYS_SOCKET_H" -> "sys/socket.h"
          [] m = "CARES_HAVE_WINSOCK2_H" -> "winsock2.h"
          [] m = "CARES_HAVE_WS2TCPIP_H" -> "ws2tcpip.h"
          [] m = "CARES_HAVE_WINDOWS_H" -> "windows.h"]

FeatureMacros == DOMAIN FeatureHeader

WindowsHeaders == {"winsock2.h", "ws2tcpip.h", "windows.h"}

AliasNames == {"ares_socklen_t", "ares_ssize_t"}

-----------------------------------------------------------------------------
(* The target platform: the headers it ships and what they declare.        *)

Platforms == {"posix", "windows"}

Available(p) ==
    IF p = "posix"
    THEN {"sys/types.h", "sys/socket.h", "arpa/inet.h", "netdb.h"}
    ELSE {"sys/types.h", "winsock2.h", "ws2tcpip.h", "windows.h"}

\* Type names a system header declares (each type at its home header only).
Declares(p, h) ==
    IF p = "posix"
    THEN CASE h = "sys/types.h" -> {"ssize_t"}
           [] h = "sys/socket.h" -> {"socklen_t"}
           [] h = "arpa/inet.h" -> {"in_addr"}
           [] h = "netdb.h" -> {"hostent"}
           [] OTHER -> {}
    ELSE CASE h = "winsock2.h" -> {"SOCKET"}
           [] h = "ws2tcpip.h" -> {"socklen_t"}
           [] h = "windows.h" -> {"SSIZE_T"}
           [] OTHER -> {}

BuiltinTypes == {"int", "long"}

\* The platform's socket-length type and signed-size type.
SocklenType(p) == IF p = "posix" THEN "socklen_t" ELSE "int"

SsizeType(p) == IF p = "posix" THEN "ssize_t" ELSE "SSIZE_T"

-----------------------------------------------------------------------------
(* The processor.                                                          *)

Top == stack[Len(stack)]

Running == status = "running" /\ stack # << >>

AtLine == Running /\ Top.pc <= Len(File(Top.file))

Cur == File(Top.file)[Top.pc]

Goto(n) == [stack EXCEPT ![Len(stack)].pc = n]

\* Index of the #endif closing the conditional whose body starts at i.
RECURSIVE MatchEndif(_, _, _)
MatchEndif(lines, i, depth) ==
    IF i > Len(lines) THEN i
    ELSE IF lines[i].k \in {"ifdef", "ifndef"}
         THEN MatchEndif(lines, i + 1, depth + 1)
    ELSE IF lines[i].k = "endif"
         THEN IF depth = 0 THEN i ELSE MatchEndif(lines, i + 1, depth - 1)
    ELSE MatchEndif(lines, i + 1, depth)

SkipGroup == Goto(MatchEndif(File(Top.file), Top.pc + 1, 0) + 1)

\* Macro replacement of a single identifier token.
Expand(tok) == IF tok \in DOMAIN macros THEN macros[tok] ELSE tok

Init ==
    /\ platform \in Platforms
    /\ predef \in SUBSET FeatureMacros
    /\ stack = << >>
    /\ macros = [m \in predef |-> ""]
    /\ declared = {}
    /\ included = {}
    /\ aliases = {}
    /\ defCount = [a \in AliasNames |-> 0]
    /\ objects = {}
    /\ errors = {}
    /\ entries = [f \in Files |-> 0]
    /\ completed = {}
    /\ tuCount = 0
    /\ status = "running"

\* The translation unit includes one of the shim's headers.
TUInclude(h) ==
    /\ status = "running"
    /\ stack = << >>
    /\ tuCount < MaxIncludes
    /\ stack' = << [file |-> h, pc |-> 1] >>
    /\ entries' = [entries EXCEPT ![h] = @ + 1]
    /\ tuCount' = tuCount + 1
    /\ UNCHANGED <<platform, predef, effect, completed, status>>

\* The translation unit ends.
TUEnd ==
    /\ status = "running"
    /\ stack = << >>
    /\ status' = "done"
    /\ UNCHANGED <<platform, predef, stack, effect, entries, completed, tuCount>>

Ifndef ==
    /\ AtLine
    /\ Cur.k = "ifndef"
    /\ stack' = IF Cur.a \in DOMAIN macros THEN SkipGroup ELSE Goto(Top.pc + 1)
    /\ UNCHANGED <<platform, predef, effect, entries, completed, tuCount, status>>

Ifdef ==
    /\ AtLine
    /\ Cur.k = "ifdef"
    /\ stack' = IF Cur.a \in DOMAIN macros THEN Goto(Top.pc + 1) ELSE SkipGroup
    /\ UNCHANGED <<platform, predef, effect, entries, completed, tuCount, status>>

Endif ==
    /\ AtLine
    /\ Cur.k = "endif"
    /\ stack' = Goto(Top.pc + 1)
    /\ UNCHANGED <<platform, predef, effect, entries, completed, tuCount, status>>

Define ==
    /\ AtLine
    /\ Cur.k = "define"
    /\ macros' = [m \in DOMAIN macros \cup {Cur.a} |->
                    IF m = Cur.a THEN Cur.b ELSE macros[m]]
    /\ stack' = Goto(Top.pc + 1)
    /\ UNCHANGED <<platform, predef, declared, included, aliases, defCount,
                   objects, errors, entries, completed, tuCount, status>>

\* #include <h>: a header the platform lacks is a fatal error.
IncludeSys ==
    /\ AtLine
    /\ Cur.k = "include_sys"
    /\ IF Cur.a \in Available(platform)
       THEN /\ included' = included \cup {<<Top.file, Cur.a>>}
            /\ declared' = declared \cup Declares(platform, Cur.a)
            /\ stack' = Goto(Top.pc + 1)
            /\ UNCHANGED <<errors, status>>
       ELSE /\ errors' = errors \cup {<<"missing-header", Cur.a>>}
            /\ status' = "fatal"
            /\ UNCHANGED <<included, declared, stack>>
    /\ UNCHANGED <<platform, predef, macros, aliases, defCount, objects,
                   entries, completed, tuCount>>

\* #include "f": enter f; the including file resumes after the line.
IncludeLocal ==
    /\ AtLine
    /\ Cur.k = "include_local"
    /\ stack' = Append(Goto(Top.pc + 1), [file |-> Cur.a, pc |-> 1])
    /\ entries' = [entries EXCEPT ![Cur.a] = @ + 1]
    /\ UNCHANGED <<platform, predef, effect, completed, tuCount, status>>

\* A file-scope declaration "typedef T name;" or "T name;".
Declare ==
    /\ AtLine
    /\ Cur.k \in {"typedef", "object"}
    /\ LET ty == Expand(Cur.a) IN
       IF ty \in declared \cup BuiltinTypes
       THEN /\ IF Cur.k = "typedef"
               THEN /\ aliases' = aliases \cup {<<Cur.b, ty>>}
                    /\ defCount' = [defCount EXCEPT ![Cur.b] = @ + 1]
                    /\ declared' = declared \cup {Cur.b}
                    /\ UNCHANGED objects
               ELSE /\ objects' = objects \cup {Cur.b}
                    /\ UNCHANGED <<aliases, defCount, declared>>
            /\ UNCHANGED errors
       ELSE /\ errors' = errors \cup {<<"undefined-type", ty>>}
            /\ UNCHANGED <<aliases, defCount, declared, objects>>
    /\ stack' = Goto(Top.pc + 1)
    /\ UNCHANGED <<platform, predef, macros, included, entries, completed,
                   tuCount, status>>

\* The end of the current file: return to the including file.
EndOfFile ==
    /\ Running
    /\ Top.pc > Len(File(Top.file))
    /\ completed' = completed \cup {Top.file}
    /\ stack' = SubSeq(stack, 1, Len(stack) - 1)
    /\ UNCHANGED <<platform, predef, effect, entries, tuCount, status>>

Next ==
    \/ \E h \in ShimHeaders : TUInclude(h)
    \/ TUEnd
    \/ Ifndef
    \/ Ifdef
    \/ Endif
    \/ Define
    \/ IncludeSys
    \/ IncludeLocal
    \/ Declare
    \/ EndOfFile

Spec == Init /\ [][Next]_vars

-----------------------------------------------------------------------------
(* Notions the properties below are stated in.                             *)

InFile(f) == \E i \in 1..Len(stack) : stack[i].file = f

Defined(m) == m \in DOMAIN macros

AliasDefined(a) == \E t \in declared \cup BuiltinTypes : <<a, t>> \in aliases

IncludedBy(f) == {h \in Available(platform) : <<f, h>> \in included}

MissingHeader == \E e \in errors : e[1] = "missing-header"

\* The system headers an #include line of f has named so far, found or not.
Attempted(f) ==
    IncludedBy(f) \cup
        (IF status = "fatal" /\ Top.file = f THEN {Cur.a} ELSE {})

\* Macros a file defines on its own.
DefinedBy(lines) == {lines[i].a : i \in {j \in 1..Len(lines) : lines[j].k = "define"}}

\* The feature macros in effect agree with the headers the target provides.
Agree ==
    \A m \in FeatureMacros :
        (m \in predef \cup DefinedBy(AresBuildH))
            <=> (FeatureHeader[m] \in Available(platform))

\* The headers of the platform that declare the two aliased types.
RequiredHeaders(p) ==
    {h \in Available(p) : Declares(p, h) \cap {SocklenType(p), SsizeType(p)} # {}}

\* Position in ares_build.h of the #include line of header h.
IncludeLine(h) ==
    CHOOSE i \in 1..Len(AresBuildH) :
        AresBuildH[i].k = "include_sys" /\ AresBuildH[i].a = h

\* ares_build.h has been processed beyond the conditional block of header h.
PastBlock(h) ==
    \/ "ares_build.h" \in completed
    \/ /\ status = "running"
       /\ stack # << >>
       /\ Top.file = "ares_build.h"
       /\ Top.pc > IncludeLine(h)

-----------------------------------------------------------------------------
(* C1: whenever the translation unit is inside the resolver library's      *)
(* ares.h, ares_build.h has been processed to its end and is no longer     *)
(* open, both aliases ares_socklen_t and ares_ssize_t are defined, and the *)
(* platform's socket-length and signed-size types are declared.            *)
C1_BuildBeforeAres ==
    InFile("../c-ares/include/ares.h") =>
        /\ "ares_build.h" \in completed
        /\ ~InFile("ares_build.h")
        /\ \A a \in AliasNames : AliasDefined(a)
        /\ {SocklenType(platform), SsizeType(platform)} \subseteq declared

C1_Witness ==
    /\ InFile("../c-ares/include/ares.h")
    /\ InFile("CAsyncDNSResolver.h")
    /\ \A a \in AliasNames : defCount[a] = 1

(* C2 as stated: on every target platform, with no feature macro defined   *)
(* ahead of the header, the shim never names a system header the platform  *)
(* lacks, ares_build.h includes exactly the headers that declare the two   *)
(* aliased types, and on POSIX no Windows header is included.              *)
C2_Original ==
    predef = {} =>
        /\ ~MissingHeader
        /\ "ares_build.h" \in completed =>
               IncludedBy("ares_build.h") = RequiredHeaders(platform)
        /\ platform = "posix" =>
               \A f \in ShimHeaders : Attempted(f) \cap WindowsHeaders = {}

(* C2, amended: the same on a POSIX target on which none of the Windows    *)
(* feature macros is defined ahead of the header.                          *)
C2_PosixHeaders ==
    (platform = "posix" /\
     predef \cap {"CARES_HAVE_WINSOCK2_H", "CARES_HAVE_WS2TCPIP_H",
                  "CARES_HAVE_WINDOWS_H"} = {}) =>
        /\ ~MissingHeader
        /\ "ares_build.h" \in completed =>
               IncludedBy("ares_build.h") = RequiredHeaders(platform)
        /\ \A f \in ShimHeaders : Attempted(f) \cap WindowsHeaders = {}

C2_Witness ==
    /\ platform = "posix"
    /\ predef = {}
    /\ status = "done"
    /\ "CAsyncDNSResolver.h" \in completed
    /\ IncludedBy("ares_build.h") = {"sys/types.h", "sys/socket.h"}
    /\ IncludedBy("CAsyncDNSResolver.h") = {"arpa/inet.h", "netdb.h"}

C5_OnlyStaticEffects ==
    /\ objects = {}
    /\ (AtLine /\ Top.file \in ShimHeaders) =>
           Cur.k \in {"ifndef", "ifdef", "endif", "define", "include_sys",
                      "include_local", "typedef"}

C5_Witness ==
    /\ status = "done"
    /\ ShimHeaders \subseteq completed
    /\ \A a \in AliasNames : AliasDefined(a)
    /\ objects = {}

(* C6 as stated: each header is included iff its feature macro is defined  *)
(* at that point, and, with no macro defined ahead of the header, the      *)
(* feature macros defined when the #ifdef blocks are evaluated are those   *)
(* of the target platform's headers.                                       *)
C6_Original ==
    /\ \A m \in FeatureMacros :
           /\ FeatureHeader[m] \in Attempted("ares_build.h") => Defined(m)
           /\ (PastBlock(FeatureHeader[m]) /\ Defined(m)) =>
                  FeatureHeader[m] \in Attempted("ares_build.h")
    /\ (predef = {} /\ AtLine /\ Top.file = "ares_build.h" /\ Cur.k = "ifdef") =>
           \A m \in FeatureMacros :
               Defined(m) <=> (FeatureHeader[m] \in Available(platform))

(* C6, amended: each header is included iff its feature macro is defined   *)
(* at that point, and the feature macros defined when the #ifdef blocks    *)
(* are evaluated are those defined ahead of the header together with       *)
(* CARES_HAVE_SYS_TYPES_H and CARES_HAVE_SYS_SOCKET_H, on every platform.  *)
C6_IncludedIffDefined ==
    /\ \A m \in FeatureMacros :
           /\ FeatureHeader[m] \in Attempted("ares_build.h") => Defined(m)
           /\ (PastBlock(FeatureHeader[m]) /\ Defined(m)) =>
                  FeatureHeader[m] \in Attempted("ares_build.h")
    /\ (AtLine /\ Top.file = "ares_build.h" /\ Cur.k = "ifdef") =>
           \A m \in FeatureMacros :
               Defined(m) <=>
                   m \in predef \cup {"CARES_HAVE_SYS_TYPES_H",
                                      "CARES_HAVE_SYS_SOCKET_H"}

C6_Witness ==
    /\ platform = "posix"
    /\ predef = {"CARES_HAVE_WINSOCK2_H"}
    /\ status = "fatal"
    /\ Top.file = "ares_build.h"
    /\ IncludedBy("ares_build.h") = {"sys/types.h", "sys/socket.h"}
    /\ Attempted("ares_build.h") \cap WindowsHeaders = {"winsock2.h"}

(* C7: every typedef of ares_build.h is processed after all of its         *)
(* #include lines, and the type it names has by then been declared by a    *)
(* system header ares_build.h included: no undefined-type error is raised. *)
C7_TypesDeclaredBeforeTypedefs ==
    /\ \A e \in errors : e[1] # "undefined-type"
    /\ \A a \in AliasNames : \A t \in declared \cup BuiltinTypes :
           <<a, t>> \in aliases =>
               \E h \in IncludedBy("ares_build.h") : t \in Declares(platform, h)
    /\ (AtLine /\ Top.file = "ares_build.h" /\ Cur.k = "typedef") =>
           /\ \A i \in 1..Len(AresBuildH) :
                  AresBuildH[i].k = "include_sys" => i < Top.pc
           /\ \E h \in IncludedBy("ares_build.h") :
                  Expand(Cur.a) \in Declares(platform, h)

C7_Witness ==
    /\ AtLine
    /\ Top.file = "ares_build.h"
    /\ Cur.k = "typedef"
    /\ Cur.b = "ares_ssize_t"
    /\ predef # {}
    /\ AliasDefined("ares_socklen_t")

(* C8: each alias is defined at most once, exactly once as soon as a shim  *)
(* header has been processed to its end, and no step taken inside a second *)
(* or later inclusion of a shim header changes any macro, declaration,     *)
(* inclusion, alias or error.                                              *)
C8_Idempotent ==
    /\ [](\A a \in AliasNames :
             /\ defCount[a] <= 1
             /\ (completed \cap ShimHeaders # {}) => defCount[a] = 1)
    /\ [][(Running /\ Top.file \in ShimHeaders /\ entries[Top.file] >= 2)
             => effect' = effect]_vars

C8_Witness ==
    /\ status = "done"
    /\ entries["ares_build.h"] >= 2
    /\ entries["CAsyncDNSResolver.h"] >= 2
    /\ \A a \in AliasNames : defCount[a] = 1

====
